---- MODULE Spec2Model ----
(***************************************************************************)
(* Model of src/posledni.py: a Register of Vehicles and their owners.      *)
(*                                                                         *)
(* Person objects are modelled as object identities 1..MaxPerson with the  *)
(* immutable attributes name, surname and age and the mutable counter      *)
(* _vehicle_count.  Two distinct objects may carry the same attributes:    *)
(* they are then equal by Person.__eq__ but keep separate counters.        *)
(* A Vehicle is the record of its three fields; its owner field holds the  *)
(* identity of a Person object.                                            *)
(***************************************************************************)
EXTENDS Integers, Sequences, FiniteSets, TLC

\* Bounds of the model: the number of Person objects callers construct, and
\* the largest count a caller drives a Person to by direct calls of
\* increment_vehicle_count.
MaxPerson == 3
MaxCount == 4

VARIABLES vehicles, owners, vehicle_count, op, arg, ret, raised

vars == <<vehicles, owners, vehicle_count, op, arg, ret, raised>>

\* The registration plates and creation dates callers use.
Plates == {"abc0", "abc1", "xyz"}
Dates == {"20221122", "20221123"}

\* The Person objects callers have constructed.
PersonObjs == 1..MaxPerson

\* Objects 1 and 2 are separately constructed Persons with the same name,
\* surname and age; objects 3 and 4 likewise, and so on.
Names == <<"John", "Alice", "Eve">>

Person(o) ==
    LET k == (o + 1) \div 2
    IN  [name |-> Names[((k - 1) % Len(Names)) + 1],
         surname |-> "Doe",
         age |-> 18 + 2 * k]

\* Person.__eq__
PersonEq_Identity(a, b) == a = b

PersonEq(a, b) ==
    /\ Person(a).name = Person(b).name
    /\ Person(a).surname = Person(b).surname
    /\ Person(a).age = Person(b).age

\* Person.increment_vehicle_count, on the counter's value
increment_vehicle_count_Twice(c) == c + 2

increment_vehicle_count(c) == c + 1

\* Person.decrement_vehicle_count, on the counter's value
decrement_vehicle_count_Unchecked(c) == c - 1

decrement_vehicle_count(c) == IF c > 0 THEN c - 1 ELSE c

\* Vehicle.__init__
Vehicle(registration_plate, creation_date, owner) ==
    [registration_plate |-> registration_plate,
     creation_date |-> creation_date,
     owner |-> owner]

\* Vehicle.__eq__
VehicleEq_AllFields(v, w) == v = w

VehicleEq_PlateAndDate(v, w) ==
    /\ v.registration_plate = w.registration_plate
    /\ v.creation_date = w.creation_date

VehicleEq(v, w) == v.registration_plate = w.registration_plate

\* `vehicle in self.vehicles`
VehicleIn(v, vs) == \E i \in DOMAIN vs : VehicleEq(vs[i], v)

\* `person in self.owners`
PersonIn_Identity(p, os) == \E i \in DOMAIN os : os[i] = p

PersonIn(p, os) == \E i \in DOMAIN os : PersonEq(os[i], p)

\* Index of the first element of os equal to p, 0 when there is none.
PersonIndex(p, os) ==
    IF PersonIn(p, os)
    THEN CHOOSE i \in DOMAIN os :
            /\ PersonEq(os[i], p)
            /\ \A j \in 1..(i - 1) : ~PersonEq(os[j], p)
    ELSE 0

\* Index of the first element of vs equal to v, 0 when there is none.
VehicleIndex(v, vs) ==
    IF VehicleIn(v, vs)
    THEN CHOOSE i \in DOMAIN vs :
            /\ VehicleEq(vs[i], v)
            /\ \A j \in 1..(i - 1) : ~VehicleEq(vs[j], v)
    ELSE 0

\* The sequence s without its element at index i.
RemoveAt(s, i) == [j \in 1..(Len(s) - 1) |-> IF j < i THEN s[j] ELSE s[j + 1]]

\* (variant of owners.remove that drops the last element, as owners.pop())
OwnersRemove_Last(os, p) == RemoveAt(os, Len(os))

\* `self.owners.remove(p)` where an equal element exists: drops the first one.
OwnersRemove(os, p) == RemoveAt(os, PersonIndex(p, os))

\* `self.vehicles.remove(v)`: drops the first element equal to v.
VehiclesRemove(vs, v) == RemoveAt(vs, VehicleIndex(v, vs))

\* (variant of _find_vehicle_by_plate whose scan starts at the second vehicle)
find_vehicle_by_plate_SkipFirst(registration_plate) ==
    IF \E i \in 2..Len(vehicles) : vehicles[i].registration_plate = registration_plate
    THEN CHOOSE i \in 2..Len(vehicles) :
            /\ vehicles[i].registration_plate = registration_plate
            /\ \A j \in 2..(i - 1) : vehicles[j].registration_plate # registration_plate
    ELSE 0

\* (variant of _find_vehicle_by_plate that returns the vehicle the scan
\* ended on, the last one, whenever the plate is registered)
find_vehicle_by_plate_Last(registration_plate) ==
    IF \E i \in DOMAIN vehicles : vehicles[i].registration_plate = registration_plate
    THEN Len(vehicles)
    ELSE 0

\* Register._find_vehicle_by_plate: index of the first vehicle with the
\* plate, 0 for None.
find_vehicle_by_plate(registration_plate) ==
    IF \E i \in DOMAIN vehicles : vehicles[i].registration_plate = registration_plate
    THEN CHOOSE i \in DOMAIN vehicles :
            /\ vehicles[i].registration_plate = registration_plate
            /\ \A j \in 1..(i - 1) : vehicles[j].registration_plate # registration_plate
    ELSE 0

\* Register.list_vehicles
list_vehicles == vehicles

\* Register.list_owners
list_owners == owners

\* Register.list_vehicle_by_owner
list_vehicle_by_owner(owner) ==
    SelectSeq(vehicles, LAMBDA vehicle : PersonEq(vehicle.owner, owner))

\* Register.__init__; every Person starts with _vehicle_count = 0.
Init ==
    /\ vehicles = <<>>
    /\ owners = <<>>
    /\ vehicle_count = [o \in PersonObjs |-> 0]
    /\ op = "none"
    /\ arg = Vehicle("", "", 0)
    /\ ret = 0
    /\ raised = FALSE

\* (variant of insert_vehicle that puts a new owner at the front of owners,
\* as owners.insert(0, owner))
insert_vehicle_Front(vehicle) ==
    /\ op' = "insert_vehicle"
    /\ arg' = vehicle
    /\ raised' = FALSE
    /\ IF VehicleIn(vehicle, vehicles)
       THEN /\ ret' = 0
            /\ UNCHANGED <<vehicles, owners, vehicle_count>>
       ELSE /\ vehicles' = Append(vehicles, vehicle)
            /\ owners' = IF PersonIn(vehicle.owner, owners)
                         THEN owners
                         ELSE <<vehicle.owner>> \o owners
            /\ vehicle_count' = [vehicle_count EXCEPT
                   ![vehicle.owner] = increment_vehicle_count(@)]
            /\ ret' = 1

\* Register.insert_vehicle
insert_vehicle(vehicle) ==
    /\ op' = "insert_vehicle"
    /\ arg' = vehicle
    /\ raised' = FALSE
    /\ IF VehicleIn(vehicle, vehicles)
       THEN /\ ret' = 0
            /\ UNCHANGED <<vehicles, owners, vehicle_count>>
       ELSE /\ vehicles' = Append(vehicles, vehicle)
            /\ owners' = IF PersonIn(vehicle.owner, owners)
                         THEN owners
                         ELSE Append(owners, vehicle.owner)
            /\ vehicle_count' = [vehicle_count EXCEPT
                   ![vehicle.owner] = increment_vehicle_count(@)]
            /\ ret' = 1

\* Register.update_vehicle_owner.  When old_owner's count reaches 0 and no
\* equal Person is in owners, list.remove raises ValueError after the
\* decrement and before the vehicle's owner is reassigned.
update_vehicle_owner(registration_plate, new_owner) ==
    LET i == find_vehicle_by_plate(registration_plate)
    IN  /\ op' = "update_vehicle_owner"
        /\ arg' = Vehicle(registration_plate, "", new_owner)
        /\ IF i = 0 \/ PersonEq(vehicles[i].owner, new_owner)
           THEN /\ ret' = 0
                /\ raised' = FALSE
                /\ UNCHANGED <<vehicles, owners, vehicle_count>>
           ELSE LET old_owner == vehicles[i].owner
                    count1 == [vehicle_count EXCEPT
                                  ![old_owner] = decrement_vehicle_count(@)]
                IN  IF count1[old_owner] = 0 /\ ~PersonIn(old_owner, owners)
                    THEN /\ raised' = TRUE
                         /\ vehicle_count' = count1
                         /\ UNCHANGED <<vehicles, owners, ret>>
                    ELSE LET owners1 == IF count1[old_owner] = 0
                                        THEN OwnersRemove(owners, old_owner)
                                        ELSE owners
                         IN  /\ vehicles' = [vehicles EXCEPT ![i].owner = new_owner]
                             /\ owners' = IF PersonIn(new_owner, owners1)
                                          THEN owners1
                                          ELSE Append(owners1, new_owner)
                             /\ vehicle_count' = [count1 EXCEPT
                                    ![new_owner] = increment_vehicle_count(@)]
                             /\ ret' = 1
                             /\ raised' = FALSE

\* Register.delete_vehicle.  When the owner's count reaches 0 and no equal
\* Person is in owners, list.remove raises ValueError after the vehicle was
\* removed and the count decremented.
delete_vehicle(registration_plate) ==
    LET i == find_vehicle_by_plate(registration_plate)
    IN  /\ op' = "delete_vehicle"
        /\ arg' = Vehicle(registration_plate, "", 0)
        /\ IF i = 0
           THEN /\ ret' = 0
                /\ raised' = FALSE
                /\ UNCHANGED <<vehicles, owners, vehicle_count>>
           ELSE LET owner == vehicles[i].owner
                    count1 == [vehicle_count EXCEPT
                                  ![owner] = decrement_vehicle_count(@)]
                IN  /\ vehicles' = VehiclesRemove(vehicles, vehicles[i])
                    /\ vehicle_count' = count1
                    /\ IF count1[owner] = 0
                       THEN IF PersonIn(owner, owners)
                            THEN /\ owners' = OwnersRemove(owners, owner)
                                 /\ ret' = 1
                                 /\ raised' = FALSE
                            ELSE /\ raised' = TRUE
                                 /\ UNCHANGED <<owners, ret>>
                       ELSE /\ ret' = 1
                            /\ raised' = FALSE
                            /\ UNCHANGED owners

\* The caller makes one call after another.  A ValueError raised by a call
\* propagates to the caller and ends the run: no further call is made.
Next ==
    \/ \E p \in Plates, d \in Dates, o \in PersonObjs :
           raised = FALSE /\ insert_vehicle(Vehicle(p, d, o))
    \/ \E p \in Plates, o \in PersonObjs :
           raised = FALSE /\ update_vehicle_owner(p, o)
    \/ \E p \in Plates :
           raised = FALSE /\ delete_vehicle(p)

Spec == Init /\ [][Next]_vars

TypeOK ==
    /\ \A i \in DOMAIN vehicles :
           /\ vehicles[i].registration_plate \in Plates
           /\ vehicles[i].creation_date \in Dates
           /\ vehicles[i].owner \in PersonObjs
    /\ \A i \in DOMAIN owners : owners[i] \in PersonObjs
    /\ vehicle_count \in [PersonObjs -> 0..Cardinality(Plates)]
    /\ ret \in {0, 1}
    /\ raised \in BOOLEAN

\* A caller calls Person.increment_vehicle_count on Person object o.
Person_increment_vehicle_count(o) ==
    /\ vehicle_count[o] < MaxCount
    /\ op' = "increment_vehicle_count"
    /\ arg' = Vehicle("", "", o)
    /\ vehicle_count' = [vehicle_count EXCEPT ![o] = increment_vehicle_count(@)]
    /\ UNCHANGED <<vehicles, owners, ret, raised>>

\* A caller calls Person.decrement_vehicle_count on Person object o.
Person_decrement_vehicle_count(o) ==
    /\ op' = "decrement_vehicle_count"
    /\ arg' = Vehicle("", "", o)
    /\ vehicle_count' = [vehicle_count EXCEPT ![o] = decrement_vehicle_count(@)]
    /\ UNCHANGED <<vehicles, owners, ret, raised>>

\* Persons on their own: any sequence of the two counter methods, which are
\* the only code that writes _vehicle_count.
NextPerson ==
    \/ \E o \in PersonObjs : Person_increment_vehicle_count(o)
    \/ \E o \in PersonObjs : Person_decrement_vehicle_count(o)

SpecPerson == Init /\ [][NextPerson]_vars

\* The owner object of the registered vehicle with the plate, 0 when no
\* vehicle has the plate.
OwnerOfPlate(registration_plate) ==
    IF find_vehicle_by_plate(registration_plate) = 0
    THEN 0
    ELSE vehicles[find_vehicle_by_plate(registration_plate)].owner

\* A run in which Person object 1 only ever receives vehicles: the caller
\* inserts vehicles for any Person, and transfers and deletes only vehicles
\* that Person object 1 does not own, never transferring a vehicle to it.
NextInsertRun ==
    \/ \E p \in Plates, d \in Dates, o \in PersonObjs :
           raised = FALSE /\ insert_vehicle(Vehicle(p, d, o))
    \/ \E p \in Plates, o \in PersonObjs \ {1} :
           /\ raised = FALSE
           /\ OwnerOfPlate(p) # 1
           /\ update_vehicle_owner(p, o)
    \/ \E p \in Plates :
           /\ raised = FALSE
           /\ OwnerOfPlate(p) # 1
           /\ delete_vehicle(p)

SpecInsertRun == Init /\ [][NextInsertRun]_vars

\* Register.delete_vehicle as a function of the current state: the register
\* and the outcome that delete_vehicle(registration_plate) leaves behind.
delete_vehicle_result(registration_plate) ==
    LET i == find_vehicle_by_plate(registration_plate)
    IN  IF i = 0
        THEN [vehicles |-> vehicles, owners |-> owners,
              vehicle_count |-> vehicle_count, ret |-> 0, raised |-> FALSE]
        ELSE LET owner == vehicles[i].owner
                 count1 == [vehicle_count EXCEPT
                               ![owner] = decrement_vehicle_count(@)]
                 removes == count1[owner] = 0
                 fails == removes /\ ~PersonIn(owner, owners)
             IN  [vehicles |-> VehiclesRemove(vehicles, vehicles[i]),
                  owners |-> IF removes /\ ~fails
                             THEN OwnersRemove(owners, owner)
                             ELSE owners,
                  vehicle_count |-> count1,
                  ret |-> IF fails THEN ret ELSE 1,
                  raised |-> fails]

\* delete_vehicle_result describes the action delete_vehicle.
delete_vehicle_result_Agrees ==
    [][op' = "delete_vehicle" =>
          delete_vehicle_result(arg'.registration_plate) =
              [vehicles |-> vehicles', owners |-> owners',
               vehicle_count |-> vehicle_count', ret |-> ret',
               raised |-> raised']]_vars

(***************************************************************************)
(* Properties of the Register.                                             *)
(***************************************************************************)

\* Person equality as the specification states it: equal name, surname, age.
SamePerson(a, b) == Person(a) = Person(b)

\* Some vehicle of the register carries the plate.
PlatePresent(plate) ==
    \E i \in DOMAIN vehicles : vehicles[i].registration_plate = plate

\* The index in vehicles of the vehicle carrying the plate.
PlateIndex(plate) ==
    CHOOSE i \in DOMAIN vehicles : vehicles[i].registration_plate = plate

\* C1: owners contains exactly the Persons (by equality) that own at least
\* one vehicle: every vehicle's owner is in owners and every Person in
\* owners owns at least one vehicle.
C1_OwnersExact ==
    /\ \A i \in DOMAIN vehicles :
           \E j \in DOMAIN owners : SamePerson(owners[j], vehicles[i].owner)
    /\ \A j \in DOMAIN owners :
           \E i \in DOMAIN vehicles : SamePerson(owners[j], vehicles[i].owner)

\* C2: for every Person in owners, vehicle_count equals the number of
\* vehicles whose owner equals that Person.
C2_CountMatchesVehicles ==
    \A j \in DOMAIN owners :
        vehicle_count[owners[j]] =
            Cardinality({i \in DOMAIN vehicles :
                            SamePerson(vehicles[i].owner, owners[j])})

\* C3: no two vehicles in the register have the same registration_plate.
C3_UniquePlates ==
    \A i, j \in DOMAIN vehicles :
        i # j => vehicles[i].registration_plate # vehicles[j].registration_plate

\* C3 witness: a register holding two vehicles has just rejected the
\* insertion of a vehicle with a plate it already holds.
C3_Witness ==
    /\ op = "insert_vehicle"
    /\ ret = 0
    /\ Len(vehicles) >= 2
    /\ PlatePresent(arg.registration_plate)

\* C4: every call completes normally and returns 0 or 1; no call ends in a
\* raised error.
C4_NoCallRaises ==
    op # "none" => (raised = FALSE /\ ret \in {0, 1})

\* C5: insert_vehicle(v) returns 0 if and only if a vehicle with v's plate
\* is already in vehicles, whatever v's creation_date and owner are, and
\* then vehicles, owners and every vehicle_count are unchanged.
C5_InsertRejectsIffPlatePresent ==
    [][op' = "insert_vehicle" =>
          /\ raised' = FALSE
          /\ (ret' = 0) <=> PlatePresent(arg'.registration_plate)
          /\ PlatePresent(arg'.registration_plate) =>
                 UNCHANGED <<vehicles, owners, vehicle_count>>]_vars

\* C5 witness: an insertion was rejected although the vehicle differs from
\* the registered one in creation_date and in owner.
C5_Witness ==
    /\ op = "insert_vehicle"
    /\ ret = 0
    /\ \E i \in DOMAIN vehicles :
           /\ vehicles[i].registration_plate = arg.registration_plate
           /\ vehicles[i].creation_date # arg.creation_date
           /\ ~SamePerson(vehicles[i].owner, arg.owner)

\* C6: insert_vehicle(v) with a plate not in vehicles returns 1, appends v
\* to vehicles leaving the earlier elements as they were, appends v's owner
\* to owners if and only if no equal Person was in owners, and raises the
\* owner's vehicle_count by exactly one.
C6_InsertAppends ==
    [][(op' = "insert_vehicle" /\ ~PlatePresent(arg'.registration_plate)) =>
          /\ raised' = FALSE
          /\ ret' = 1
          /\ vehicles' = Append(vehicles, arg')
          /\ IF \E j \in DOMAIN owners : SamePerson(owners[j], arg'.owner)
             THEN owners' = owners
             ELSE owners' = Append(owners, arg'.owner)
          /\ vehicle_count'[arg'.owner] = vehicle_count[arg'.owner] + 1]_vars

\* C6 witness: a second vehicle was inserted for a Person object that is
\* not itself in owners while an equal Person is.
C6_Witness ==
    /\ op = "insert_vehicle"
    /\ ret = 1
    /\ Len(vehicles) >= 2
    /\ vehicles[Len(vehicles)] = arg
    /\ \A j \in DOMAIN owners : owners[j] # arg.owner
    /\ \E j \in DOMAIN owners : SamePerson(owners[j], arg.owner)

\* C7: update_vehicle_owner(plate, new_owner) returns 0 when no vehicle has
\* the plate and when the vehicle's owner equals new_owner; vehicles, the
\* vehicles' owners, owners and every vehicle_count are then unchanged.
C7_UpdateRejects ==
    [][(/\ op' = "update_vehicle_owner"
        /\ \/ ~PlatePresent(arg'.registration_plate)
           \/ \E i \in DOMAIN vehicles :
                  /\ vehicles[i].registration_plate = arg'.registration_plate
                  /\ SamePerson(vehicles[i].owner, arg'.owner)) =>
          /\ raised' = FALSE
          /\ ret' = 0
          /\ UNCHANGED <<vehicles, owners, vehicle_count>>]_vars

\* C7 witness: a transfer to a separately constructed Person equal to the
\* vehicle's owner was rejected.
C7_Witness ==
    /\ op = "update_vehicle_owner"
    /\ ret = 0
    /\ \E i \in DOMAIN vehicles :
           /\ vehicles[i].registration_plate = arg.registration_plate
           /\ vehicles[i].owner # arg.owner
           /\ SamePerson(vehicles[i].owner, arg.owner)

\* C8: update_vehicle_owner(plate, new_owner) for a registered plate whose
\* owner is not equal to new_owner returns 1; afterwards the vehicle's owner
\* is new_owner, the old owner's count is one less, new_owner's count is one
\* greater, and new_owner is in owners, last if no equal Person was there.
C8_UpdateTransfers ==
    [][(/\ op' = "update_vehicle_owner"
        /\ PlatePresent(arg'.registration_plate)
        /\ ~SamePerson(vehicles[PlateIndex(arg'.registration_plate)].owner,
                       arg'.owner)) =>
          LET i == PlateIndex(arg'.registration_plate)
              old_owner == vehicles[i].owner
              new_owner == arg'.owner
          IN  /\ raised' = FALSE
              /\ ret' = 1
              /\ vehicles'[i].owner = new_owner
              /\ vehicle_count'[old_owner] = vehicle_count[old_owner] - 1
              /\ vehicle_count'[new_owner] = vehicle_count[new_owner] + 1
              /\ \E j \in DOMAIN owners' : SamePerson(owners'[j], new_owner)
              /\ (\A j \in DOMAIN owners : ~SamePerson(owners[j], new_owner))
                     => owners'[Len(owners')] = new_owner]_vars

\* C9: after a successful update_vehicle_owner that brings the old owner's
\* vehicle_count to 0 the old owner is not in list_owners(); if the old
\* owner still has a vehicle after the transfer it remains in list_owners().
C9_UpdateOwnersMembership ==
    [][(/\ op' = "update_vehicle_owner"
        /\ raised' = FALSE
        /\ ret' = 1) =>
          LET i == PlateIndex(arg'.registration_plate)
              old_owner == vehicles[i].owner
          IN  /\ vehicle_count'[old_owner] = 0 =>
                     \A j \in DOMAIN owners' : ~SamePerson(owners'[j], old_owner)
              /\ (/\ vehicle_count'[old_owner] > 0
                  /\ \E k \in DOMAIN vehicles' : vehicles'[k].owner = old_owner)
                     => \E j \in DOMAIN owners' :
                            SamePerson(owners'[j], old_owner)]_vars

\* C10: delete_vehicle(plate) for a registered plate returns 1, removes that
\* vehicle and keeps the others in order, lowers the owner's vehicle_count
\* by one, and removes the owner from list_owners() if and only if the
\* count reaches 0.
C10_DeleteRemoves ==
    [][(op' = "delete_vehicle" /\ PlatePresent(arg'.registration_plate)) =>
          LET i == PlateIndex(arg'.registration_plate)
              owner == vehicles[i].owner
              inBefore == \E j \in DOMAIN owners : SamePerson(owners[j], owner)
              inAfter == \E j \in DOMAIN owners' : SamePerson(owners'[j], owner)
          IN  /\ raised' = FALSE
              /\ ret' = 1
              /\ vehicles' = RemoveAt(vehicles, i)
              /\ vehicle_count'[owner] = vehicle_count[owner] - 1
              /\ (inBefore /\ ~inAfter) <=> (vehicle_count'[owner] = 0)]_vars

\* C11: delete_vehicle(plate) returns 0 if and only if no vehicle in
\* vehicles has the plate, and then vehicles, owners and every
\* vehicle_count are unchanged.
C11_DeleteRejectsIffPlateAbsent ==
    [][op' = "delete_vehicle" =>
          /\ (raised' = FALSE /\ ret' = 0) <=>
                 ~PlatePresent(arg'.registration_plate)
          /\ ~PlatePresent(arg'.registration_plate) =>
                 UNCHANGED <<vehicles, owners, vehicle_count>>]_vars

\* C11 witness: a register that holds vehicles has rejected the deletion of
\* a plate it does not hold.
C11_Witness ==
    /\ op = "delete_vehicle"
    /\ raised = FALSE
    /\ ret = 0
    /\ Len(vehicles) >= 1
    /\ ~PlatePresent(arg.registration_plate)

\* C12: for every Person p, list_vehicle_by_owner(p) is the subsequence of
\* list_vehicles() of the vehicles whose owner equals p, in the same order,
\* and it is empty when p is not in owners.  The query is a function of the
\* state and changes nothing.
C12_ListByOwner ==
    \A p \in PersonObjs :
        /\ list_vehicle_by_owner(p) =
               SelectSeq(list_vehicles,
                         LAMBDA vehicle : SamePerson(vehicle.owner, p))
        /\ (\A j \in DOMAIN list_owners : ~SamePerson(list_owners[j], p))
               => list_vehicle_by_owner(p) = <<>>

\* C13: a Person's vehicle_count is never negative; decrement_vehicle_count
\* lowers it by 1 only when it is greater than 0, otherwise leaves it at 0,
\* and signals no error.
C13_CountNeverNegative ==
    [][/\ \A o \in PersonObjs : vehicle_count'[o] >= 0
       /\ op' = "decrement_vehicle_count" =>
              /\ raised' = FALSE
              /\ vehicle_count'[arg'.owner] =
                     IF vehicle_count[arg'.owner] > 0
                     THEN vehicle_count[arg'.owner] - 1
                     ELSE 0]_vars

\* C13 witness: decrement_vehicle_count has been called on a Person whose
\* count is 0 while another Person's count is positive.
C13_Witness ==
    /\ op = "decrement_vehicle_count"
    /\ vehicle_count[arg.owner] = 0
    /\ \E o \in PersonObjs : vehicle_count[o] > 0

\* C14: a Person that starts with no vehicle and vehicle_count 0 and for
\* which N vehicles with distinct plates are inserted successfully, no
\* transfer or delete touching it, has vehicle_count N.  In SpecInsertRun
\* the vehicles of Person object 1 in the register are exactly the ones
\* inserted for it.
C14_CountEqualsInserted ==
    vehicle_count[1] =
        Cardinality({i \in DOMAIN vehicles : vehicles[i].owner = 1})

\* C14 witness: two vehicles were inserted for Person object 1, and a
\* vehicle of another Person was deleted afterwards.
C14_Witness ==
    /\ Cardinality({i \in DOMAIN vehicles : vehicles[i].owner = 1}) = 2
    /\ op = "delete_vehicle"
    /\ ret = 1
    /\ raised = FALSE

\* The scenario of the tests: person1 is Person object 1, person2 is Person
\* object 3.  ScenarioCall(k) is the k-th call, as <<method, plate, owner>>.
ScenarioCall(k) ==
    CASE k \in {1, 9}  -> <<"insert_vehicle", "abc0", 1>>
      [] k \in {2, 10} -> <<"insert_vehicle", "abc1", 1>>
      [] k \in {3, 11} -> <<"insert_vehicle", "xyz", 3>>
      [] k = 4         -> <<"update_vehicle_owner", "abc1", 3>>
      [] k = 5         -> <<"update_vehicle_owner", "abc0", 3>>
      [] k = 6         -> <<"delete_vehicle", "abc0", 0>>
      [] k = 7         -> <<"delete_vehicle", "abc1", 0>>
      [] k = 8         -> <<"delete_vehicle", "xyz", 0>>

\* The register the scenario expects after its k-th call: the <<plate,
\* owner>> pairs of vehicles, owners, and the counts of person1 and person2.
ScenarioState(k) ==
    CASE k \in {0, 8}  -> <<<< >>, << >>, 0, 0>>
      [] k \in {1, 9}  -> <<<< <<"abc0", 1>> >>, <<1>>, 1, 0>>
      [] k \in {2, 10} -> <<<< <<"abc0", 1>>, <<"abc1", 1>> >>, <<1>>, 2, 0>>
      [] k \in {3, 11} -> <<<< <<"abc0", 1>>, <<"abc1", 1>>, <<"xyz", 3>> >>,
                            <<1, 3>>, 2, 1>>
      [] k = 4         -> <<<< <<"abc0", 1>>, <<"abc1", 3>>, <<"xyz", 3>> >>,
                            <<1, 3>>, 1, 2>>
      [] k = 5         -> <<<< <<"abc0", 3>>, <<"abc1", 3>>, <<"xyz", 3>> >>,
                            <<3>>, 0, 3>>
      [] k = 6         -> <<<< <<"abc1", 3>>, <<"xyz", 3>> >>, <<3>>, 0, 2>>
      [] k = 7         -> <<<< <<"xyz", 3>> >>, <<3>>, 0, 1>>

\* The register in the form of ScenarioState.
RegisterView ==
    <<[i \in DOMAIN vehicles |->
          <<vehicles[i].registration_plate, vehicles[i].owner>>],
      owners, vehicle_count[1], vehicle_count[3]>>

\* C15: the scenario holds step by step from the empty register: each of
\* its calls, made in the state the scenario expects before it, returns 1
\* and yields the state the scenario expects after it (owners [A(2), B(1)],
\* then [A(1), B(2)], then [B(3)], then empty, then [A, B] again).
C15_Scenario ==
    [][\A k \in 1..11 :
          (/\ op' = ScenarioCall(k)[1]
           /\ arg'.registration_plate = ScenarioCall(k)[2]
           /\ arg'.owner = ScenarioCall(k)[3]
           /\ RegisterView = ScenarioState(k - 1)) =>
             /\ raised' = FALSE
             /\ ret' = 1
             /\ RegisterView' = ScenarioState(k)]_vars

\* C15 witness: the second transfer of the scenario has just left person2
\* as the only owner, with three vehicles.
C15_Witness ==
    /\ op = "update_vehicle_owner"
    /\ arg.registration_plate = "abc0"
    /\ arg.owner = 3
    /\ ret = 1
    /\ RegisterView = ScenarioState(5)

\* C16: a successful update_vehicle_owner changes nothing but the ownership
\* of that one vehicle: the plates of list_vehicles() are the same in the
\* same order, every other vehicle keeps its owner, and every Person other
\* than the old and the new owner keeps its vehicle_count.
C16_UpdateFrame ==
    [][(op' = "update_vehicle_owner" /\ raised' = FALSE /\ ret' = 1) =>
          LET i == PlateIndex(arg'.registration_plate)
              old_owner == vehicles[i].owner
              new_owner == arg'.owner
          IN  /\ Len(vehicles') = Len(vehicles)
              /\ \A j \in DOMAIN vehicles :
                     /\ vehicles'[j].registration_plate =
                            vehicles[j].registration_plate
                     /\ j # i => vehicles'[j].owner = vehicles[j].owner
              /\ \A o \in PersonObjs \ {old_owner, new_owner} :
                     vehicle_count'[o] = vehicle_count[o]]_vars

\* C16 witness: a transfer succeeded in a register of three vehicles in
\* which every Person object owns a vehicle, so that a Person other than
\* the old and the new owner has a count to keep.
C16_Witness ==
    /\ op = "update_vehicle_owner"
    /\ raised = FALSE
    /\ ret = 1
    /\ Len(vehicles) = 3
    /\ \A o \in 1..3 : vehicle_count[o] > 0

C18_OwnersDistinct ==
    \A i, j \in DOMAIN owners :
        i # j => ~SamePerson(owners[i], owners[j])

\* C18 witness: a vehicle was transferred to a Person object that is not
\* itself in owners while an equal Person is.
C18_Witness ==
    /\ op = "update_vehicle_owner"
    /\ raised = FALSE
    /\ ret = 1
    /\ \A j \in DOMAIN owners : owners[j] # arg.owner
    /\ \E j \in DOMAIN owners : SamePerson(owners[j], arg.owner)

\* The outcome of calling delete_vehicle on the plate of the last call.
DeleteLastPlate == delete_vehicle_result(arg.registration_plate)

\* C19: a successful insert_vehicle(v) immediately followed by
\* delete_vehicle(v.registration_plate) returns 1 both times and restores
\* the register exactly: the same vehicles, the same owners in the same
\* order, the same vehicle_count for every Person.
C19_InsertDeleteRoundTrip ==
    [][(op' = "insert_vehicle" /\ ret' = 1) =>
          DeleteLastPlate' =
              [vehicles |-> vehicles, owners |-> owners,
               vehicle_count |-> vehicle_count, ret |-> 1,
               raised |-> FALSE]]_vars

\* The sum of vehicle_count over the Person objects 1..n.
RECURSIVE CountSum(_)
CountSum(n) == IF n = 0 THEN 0 ELSE vehicle_count[n] + CountSum(n - 1)

\* C20: after any sequence of calls each Person object's vehicle_count is
\* the number of vehicles whose owner field refers to that very object, so
\* the counts of all Person objects sum to the number of vehicles.
C20_CountByReference ==
    /\ \A o \in PersonObjs :
           vehicle_count[o] =
               Cardinality({i \in DOMAIN vehicles : vehicles[i].owner = o})
    /\ CountSum(MaxPerson) = Len(vehicles)
====
